---- MODULE Spec2Model ----
(***************************************************************************)
(* Conway's Game of Life on a toroidal grid: the Universe of src/src/lib.rs *)
(* (new, get_index, live_neighbor_count, cell, toggle_cell, tick) and the   *)
(* callbacks start() installs (animation frame, play/pause, canvas click).  *)
(*                                                                          *)
(* The cell buffer is the Vec<Cell> as a sequence of u8 values (Dead = 0,   *)
(* Alive = 1); Rust index idx is position idx + 1 of the sequence.  An      *)
(* out-of-bounds Vec index panics; a panic ends the run.  All coordinates   *)
(* used here are far below 2^32, so the u32 arithmetic of get_index and of  *)
(* the neighbour computation never wraps.                                   *)
(***************************************************************************)
EXTENDS Integers, Sequences, FiniteSets

VARIABLES width,      \* Universe.width
          height,     \* Universe.height
          cells,      \* Universe.cells
          panicked,   \* TRUE once a Vec index was out of bounds
          last,       \* the last call made: [op, row, col]
          pre,        \* Universe.cells as it was before the last call
          accessed,   \* buffer indices the last call computed and indexed with
          ret,        \* value the last call returned (Dead when it returned none)
          is_running, \* the is_running flag of start()
          pending,    \* number of requested animation-frame callbacks not yet run
          offset      \* <<offset_x, offset_y>> of the last canvas click

uvars == <<width, height, cells, panicked, last, pre, accessed, ret>>
dvars == <<is_running, pending, offset>>
vars == <<width, height, cells, panicked, last, pre, accessed, ret,
          is_running, pending, offset>>

\* ---- bounds ----
MaxWidth == 3
MaxHeight == 3
MaxCells == 9
MaxCoord == 3
MaxPatternWidth == 6
MaxPatternHeight == 6
MaxPending == 3
MaxLoopCells == 4

\* ---- constants of Universe::new and Canvas::new ----
NewWidth == 64
NewHeight == 64
CellSize == 10

\* ---- enum Cell ----
Dead == 0
Alive == 1

\* ---- helpers ----
RECURSIVE SumSeq(_)
SumSeq(s) == IF s = <<>> THEN 0 ELSE Head(s) + SumSeq(Tail(s))

\* self.cells[idx] as u8; the callers establish idx < len before the value
\* is used (an out-of-bounds index panics instead of yielding a value).
At(buf, idx) == IF idx + 1 \in DOMAIN buf THEN buf[idx + 1] ELSE Dead

InBounds(buf, idx) == idx >= 0 /\ idx < Len(buf)

\* ---- Universe ----
get_index(w, row, column) == row * w + column

row_deltas_typo(h) == <<1, 0, 1>>
row_deltas(h) == <<h - 1, 0, 1>>

col_deltas(w) == <<w - 1, 0, 1>>

neighbor_row_no_mod(h, row, delta_row) == row + delta_row
neighbor_row(h, row, delta_row) == (row + delta_row) % h

neighbor_col(w, column, delta_col) == (column + delta_col) % w

\* The test of the `continue`, with || in place of &&.
skipped_or(delta_row, delta_col) == delta_row = 0 \/ delta_col = 0
\* The test of the `continue`.
skipped_never(delta_row, delta_col) == FALSE
skipped(delta_row, delta_col) == delta_row = 0 /\ delta_col = 0

\* The (delta_row, delta_col) pairs of the two nested loops, in loop order,
\* without the pairs the `continue` skips.
neighbor_deltas(w, h) ==
    LET dr == row_deltas(h)
        dc == col_deltas(w)
        all == [k \in 1..9 |-> <<dr[((k - 1) \div 3) + 1], dc[((k - 1) % 3) + 1]>>]
    IN SelectSeq(all, LAMBDA p : ~skipped(p[1], p[2]))

\* The buffer indices live_neighbor_count(row, column) indexes with, in order.
neighbor_indices(w, h, row, column) ==
    LET d == neighbor_deltas(w, h)
    IN [k \in 1..Len(d) |->
          get_index(w, neighbor_row(h, row, d[k][1]), neighbor_col(w, column, d[k][2]))]

\* count += self.cells[idx] as u8 at every index.
live_neighbor_count(w, h, buf, row, column) ==
    LET idxs == neighbor_indices(w, h, row, column)
    IN SumSeq([k \in 1..Len(idxs) |-> At(buf, idxs[k])])

\* The match of tick, arm by arm.
next_cell_no_birth(cell, live_neighbors) ==
    IF cell = Alive /\ live_neighbors < 2 THEN Dead
    ELSE IF cell = Alive /\ (live_neighbors = 2 \/ live_neighbors = 3) THEN Alive
    ELSE IF cell = Alive /\ live_neighbors > 3 THEN Dead
    ELSE cell
next_cell_only_two(cell, live_neighbors) ==
    IF cell = Alive /\ live_neighbors < 2 THEN Dead
    ELSE IF cell = Alive /\ live_neighbors = 2 THEN Alive
    ELSE IF cell = Alive /\ live_neighbors > 2 THEN Dead
    ELSE IF cell = Dead /\ live_neighbors = 3 THEN Alive
    ELSE cell
next_cell_birth_below(cell, live_neighbors) ==
    IF cell = Alive /\ live_neighbors < 2 THEN Dead
    ELSE IF cell = Alive /\ (live_neighbors = 2 \/ live_neighbors = 3) THEN Alive
    ELSE IF cell = Alive /\ live_neighbors > 3 THEN Dead
    ELSE IF cell = Dead /\ live_neighbors < 3 THEN Alive
    ELSE cell
next_cell(cell, live_neighbors) ==
    IF cell = Alive /\ live_neighbors < 2 THEN Dead
    ELSE IF cell = Alive /\ (live_neighbors = 2 \/ live_neighbors = 3) THEN Alive
    ELSE IF cell = Alive /\ live_neighbors > 3 THEN Dead
    ELSE IF cell = Dead /\ live_neighbors = 3 THEN Alive
    ELSE cell

\* The two nested loops of tick: cur is self.cells, next the clone being filled.
RECURSIVE tick_loop(_, _, _, _, _, _)
tick_loop(w, h, cur, next, row, col) ==
    IF row >= h THEN next
    ELSE IF col >= w THEN tick_loop(w, h, cur, next, row + 1, 0)
    ELSE LET idx == get_index(w, row, col)
             cell == At(cur, idx)
             live_neighbors == live_neighbor_count(w, h, cur, row, col)
         IN tick_loop(w, h, cur,
                      [next EXCEPT ![idx + 1] = next_cell(cell, live_neighbors)],
                      row, col + 1)

\* A tick that updates the buffer it reads from.
RECURSIVE tick_loop_in_place(_, _, _, _, _)
tick_loop_in_place(w, h, buf, row, col) ==
    IF row >= h THEN buf
    ELSE IF col >= w THEN tick_loop_in_place(w, h, buf, row + 1, 0)
    ELSE LET idx == get_index(w, row, col)
             cell == At(buf, idx)
             live_neighbors == live_neighbor_count(w, h, buf, row, col)
         IN tick_loop_in_place(w, h,
                      [buf EXCEPT ![idx + 1] = next_cell(cell, live_neighbors)],
                      row, col + 1)

\* A tick that pushes the new cells onto the clone instead of assigning them.
RECURSIVE tick_loop_push(_, _, _, _, _, _)
tick_loop_push(w, h, cur, next, row, col) ==
    IF row >= h THEN next
    ELSE IF col >= w THEN tick_loop_push(w, h, cur, next, row + 1, 0)
    ELSE LET idx == get_index(w, row, col)
             cell == At(cur, idx)
             live_neighbors == live_neighbor_count(w, h, cur, row, col)
         IN tick_loop_push(w, h, cur,
                      Append(next, next_cell(cell, live_neighbors)),
                      row, col + 1)

tick_in_place(w, h, buf) == tick_loop_in_place(w, h, buf, 0, 0)
tick_push(w, h, buf) == tick_loop_push(w, h, buf, buf, 0, 0)
tick(w, h, buf) == tick_loop(w, h, buf, buf, 0, 0)

\* Every buffer index one tick computes: the cell's own and its neighbours'.
tick_indices(w, h) ==
    UNION { LET idxs == neighbor_indices(w, h, row, col)
            IN {get_index(w, row, col)} \cup {idxs[k] : k \in 1..Len(idxs)} :
            row \in 0..(h - 1), col \in 0..(w - 1) }

toggle_index_transposed(w, row, column) == get_index(w, column, row)
toggle_index(w, row, column) == get_index(w, row, column)

toggle_cell(w, buf, row, column) ==
    LET idx == toggle_index(w, row, column)
    IN IF At(buf, idx) = Alive
       THEN [buf EXCEPT ![idx + 1] = Dead]
       ELSE [buf EXCEPT ![idx + 1] = Alive]

\* ---- grids ----
CellValues == {Dead, Alive}
Grids(w, h) == [1..(w * h) -> CellValues]
Coords == 0..MaxCoord

\* The w x h grid whose Alive cells are exactly those at the (row, column)
\* pairs of live.
GridOf(w, h, live) ==
    [i \in 1..(w * h) |->
        IF <<(i - 1) \div w, (i - 1) % w>> \in live THEN Alive ELSE Dead]

AliveCells(w, h, buf) ==
    { rc \in (0..(h - 1)) \X (0..(w - 1)) : At(buf, rc[1] * w + rc[2]) = Alive }

HBlinker(w, h, r, c) == GridOf(w, h, {<<r, c - 1>>, <<r, c>>, <<r, c + 1>>})
VBlinker(w, h, r, c) == GridOf(w, h, {<<r - 1, c>>, <<r, c>>, <<r + 1, c>>})
BlockCells(r, c) == {<<r, c>>, <<r, c + 1>>, <<r + 1, c>>, <<r + 1, c + 1>>}
Block(w, h, r, c) == GridOf(w, h, BlockCells(r, c))

\* Centres (r, c) of a horizontal blinker with a Dead cell between it and
\* every edge; top-left corners (r, c) of a block touching no edge.
BlinkerPlaces(w, h) == { rc \in (1..(h - 2)) \X (2..(w - 3)) : w >= 5 /\ h >= 5 }
BlockPlaces(w, h) == { rc \in (1..(h - 3)) \X (1..(w - 3)) : w >= 4 /\ h >= 4 }

\* ---- state machine ----
NoCall == [op |-> "new", row |-> 0, col |-> 0]

UniverseWith(w, h, buf) ==
    /\ width = w
    /\ height = h
    /\ cells = buf
    /\ panicked = FALSE
    /\ last = NoCall
    /\ pre = buf
    /\ accessed = {}
    /\ ret = Dead

\* A Universe on its own: no callback is installed.
InitWith(w, h, buf) ==
    /\ UniverseWith(w, h, buf)
    /\ is_running = FALSE
    /\ pending = 0
    /\ offset = <<0, 0>>

\* Any grid of bounded width, height and buffer length.
Init ==
    \E w \in 1..MaxWidth, h \in 1..MaxHeight :
        /\ w * h <= MaxCells
        /\ \E buf \in Grids(w, h) : InitWith(w, h, buf)

\* The 3x3 grid whose middle row is Alive.
Example3 == HBlinker(3, 3, 1, 1)

\* The fixed patterns: the 3x3 example, or a blinker or a block on a bounded
\* grid.
InitPatterns ==
    \/ InitWith(3, 3, Example3)
    \/ \E w \in 4..MaxPatternWidth, h \in 4..MaxPatternHeight :
        \/ \E rc \in BlinkerPlaces(w, h) : InitWith(w, h, HBlinker(w, h, rc[1], rc[2]))
        \/ \E rc \in BlockPlaces(w, h) : InitWith(w, h, Block(w, h, rc[1], rc[2]))

\* self.tick() on the Universe.
TickCall ==
    /\ ~panicked
    /\ LET idxs == tick_indices(width, height)
           ok == \A i \in idxs : InBounds(cells, i)
       IN /\ accessed' = idxs
          /\ panicked' = ~ok
          /\ cells' = IF ok THEN tick(width, height, cells) ELSE cells
    /\ last' = [op |-> "tick", row |-> 0, col |-> 0]
    /\ pre' = cells
    /\ ret' = Dead
    /\ UNCHANGED <<width, height>>

\* A tick that also transposes the dimensions.
TickTransposing ==
    /\ ~panicked
    /\ cells' = tick(width, height, cells)
    /\ width' = height
    /\ height' = width
    /\ last' = [op |-> "tick", row |-> 0, col |-> 0]
    /\ pre' = cells
    /\ UNCHANGED <<panicked, accessed, ret>>
    /\ UNCHANGED dvars
Tick == TickCall /\ UNCHANGED dvars

\* self.toggle_cell(row, column) on the Universe.
ToggleCall(row, column) ==
    /\ ~panicked
    /\ LET idx == toggle_index(width, row, column)
           ok == InBounds(cells, idx)
       IN /\ accessed' = IF ok THEN {idx} ELSE {}
          /\ panicked' = ~ok
          /\ cells' = IF ok THEN toggle_cell(width, cells, row, column) ELSE cells
    /\ last' = [op |-> "toggle_cell", row |-> row, col |-> column]
    /\ pre' = cells
    /\ ret' = Dead
    /\ UNCHANGED <<width, height>>

ToggleCell(row, column) == ToggleCall(row, column) /\ UNCHANGED dvars

CellQuery(row, column) ==
    /\ ~panicked
    /\ LET idx == get_index(width, row, column)
           ok == InBounds(cells, idx)
       IN /\ accessed' = IF ok THEN {idx} ELSE {}
          /\ panicked' = ~ok
          /\ ret' = IF ok THEN At(cells, idx) ELSE Dead
    /\ last' = [op |-> "cell", row |-> row, col |-> column]
    /\ pre' = cells
    /\ UNCHANGED <<width, height, cells>>
    /\ UNCHANGED dvars

Next ==
    \/ Tick
    \/ \E row \in Coords, column \in Coords : ToggleCell(row, column)
    \/ \E row \in Coords, column \in Coords : CellQuery(row, column)

Spec == Init /\ [][Next]_vars

NextPatterns == Tick

SpecPatterns == InitPatterns /\ [][NextPatterns]_vars

\* ---- Universe::new ----
seed_and(i) == IF i % 2 = 0 /\ i % 7 = 0 THEN Alive ELSE Dead
seed(i) == IF i % 2 = 0 \/ i % 7 = 0 THEN Alive ELSE Dead

\* (0..width * height).map(seed).collect()
new_cells(w, h) == [k \in 1..(w * h) |-> seed(k - 1)]

\* ---- Canvas::new ----
canvas_height(h) == (CellSize + 1) * h + 1
canvas_width(w) == (CellSize + 1) * w + 1

\* ---- start() ----
\* The state start() leaves behind when Universe::new() makes a w x h grid:
\* is_running is false and one animation frame has been requested.
StartWith(w, h) ==
    /\ UniverseWith(w, h, new_cells(w, h))
    /\ is_running = FALSE
    /\ pending = 1
    /\ offset = <<0, 0>>

\* start() as written: Universe::new() is 64 x 64.
InitStart == StartWith(NewWidth, NewHeight)

\* The click callback: pixel offset to grid coordinates, then toggle_cell.
click_row(offset_y) == offset_y \div (CellSize + 1)
click_col(offset_x) == offset_x \div (CellSize + 1)

Click(offset_x, offset_y) ==
    /\ ToggleCall(click_row(offset_y), click_col(offset_x))
    /\ offset' = <<offset_x, offset_y>>
    /\ UNCHANGED <<is_running, pending>>

\* Pixel offsets inside a canvas over n cells: the first pixel, the first
\* pixel of the second cell, and the last pixel of the canvas.
ClickOffsets(n) == {0, CellSize + 1, (CellSize + 1) * n}

NextStart ==
    \E offset_x \in ClickOffsets(width), offset_y \in ClickOffsets(height) :
        Click(offset_x, offset_y)

SpecStart == InitStart /\ [][NextStart]_vars

\* The play button callback: flip is_running; when it was false, request an
\* animation frame.  (The request is capped at MaxPending outstanding frames.)
play_request_never(running) == 0
play_request(running) == IF ~running THEN 1 ELSE 0

PlayClick ==
    /\ ~panicked
    /\ pending + play_request(is_running) <= MaxPending
    /\ is_running' = ~is_running
    /\ pending' = pending + play_request(is_running)
    /\ last' = [op |-> "play", row |-> 0, col |-> 0]
    /\ pre' = cells
    /\ accessed' = {}
    /\ ret' = Dead
    /\ UNCHANGED <<width, height, cells, panicked, offset>>

\* What the animation callback requests after its tick and redraw.
frame_request_always(running) == 1
frame_request(running) == IF running THEN 1 ELSE 0

\* One requested animation callback runs: universe.tick(), redraw, and a new
\* request when is_running is set.
AnimationFrame ==
    /\ pending > 0
    /\ TickCall
    /\ pending' = (pending - 1) + frame_request(is_running)
    /\ UNCHANGED <<is_running, offset>>

\* start() with the universe of Universe::new scaled down to w x h cells,
\* at most MaxLoopCells of them.
InitLoop ==
    \E w \in 1..MaxWidth, h \in 1..MaxHeight :
        /\ w * h <= MaxLoopCells
        /\ StartWith(w, h)

NextLoop ==
    \/ PlayClick
    \/ AnimationFrame

SpecLoop == InitLoop /\ [][NextLoop]_vars

\* The browser runs every requested animation callback.
SpecLoopFair == SpecLoop /\ WF_vars(AnimationFrame)

\* ---- properties ----

\* The transition rule as the table states it.
TransitionRule(cell, n) ==
    IF cell = Alive
    THEN (IF n < 2 THEN Dead ELSE IF n = 2 \/ n = 3 THEN Alive ELSE Dead)
    ELSE (IF n = 3 THEN Alive ELSE Dead)

\* The number of Alive cells among the 8 wrapped positions
\* ((row + dr) mod h, (column + dc) mod w), dr, dc in {-1, 0, 1}, not both 0,
\* each position counted as often as it occurs.
WrappedCount(w, h, buf, row, column) ==
    LET offs == <<-1, 0, 1>>
        val(k) == LET dr == offs[((k - 1) \div 3) + 1]
                      dc == offs[((k - 1) % 3) + 1]
                  IN IF dr = 0 /\ dc = 0 THEN 0
                     ELSE At(buf, ((row + dr + h) % h) * w + ((column + dc + w) % w))
    IN SumSeq([k \in 1..9 |-> val(k)])

Rows == 0..(height - 1)
Columns == 0..(width - 1)
Corner == (height - 1) * width + (width - 1)

\* C1 (as claimed): after one tick() every cell's new state is the transition
\* rule applied to the cell's state and its wrapped live-neighbor count (the
\* Alive cells among its 8 wrapped neighbors) in the grid as it was before the
\* tick; no new state is computed from an already updated cell.
C1_TickFromOldBuffer ==
    last.op = "tick" =>
        \A row \in Rows, col \in Columns :
            At(cells, row * width + col) =
                TransitionRule(At(pre, row * width + col),
                               WrappedCount(width, height, pre, row, col))

\* C2 (as claimed): for every cell of every grid, live_neighbor_count makes
\* exactly 8 neighbour lookups and returns the number of Alive cells among
\* the 8 wrapped positions, counted with multiplicity.
C2_EightWrappedNeighbors ==
    last.op = "tick" =>
        \A row \in Rows, col \in Columns :
            /\ Len(neighbor_indices(width, height, row, col)) = 8
            /\ live_neighbor_count(width, height, pre, row, col) =
                   WrappedCount(width, height, pre, row, col)

\* C3: an in-range toggle_cell(row, column) flips exactly the cell at index
\* row * width + column and leaves every other cell, width and height as they
\* were (so it advances no generation); a second toggle_cell on the same
\* coordinate restores the whole grid.
C3_Step ==
    /\ (last'.op = "toggle_cell" /\ last'.row < height /\ last'.col < width) =>
           /\ ~panicked'
           /\ width' = width /\ height' = height
           /\ Len(cells') = Len(cells)
           /\ \A i \in 0..(Len(cells) - 1) :
                  IF i = last'.row * width + last'.col
                  THEN At(cells', i) # At(cells, i)
                  ELSE At(cells', i) = At(cells, i)
    /\ (/\ last.op = "toggle_cell" /\ last.row < height /\ last.col < width
        /\ last'.op = "toggle_cell" /\ last'.row = last.row /\ last'.col = last.col) =>
           cells' = pre
C3_ToggleInvolution == [][C3_Step]_vars

\* An in-range toggle has flipped a cell off the diagonal of a non-square grid.
C3_Witness ==
    /\ last.op = "toggle_cell"
    /\ last.row < height /\ last.col < width
    /\ last.row # last.col
    /\ width # height
    /\ At(cells, last.row * width + last.col) # At(pre, last.row * width + last.col)

\* C4 (as claimed): on the 3x3 grid with Alive exactly at (1,0), (1,1), (1,2)
\* one tick() leaves Alive exactly (0,1), (1,1), (2,1) and a second tick()
\* leaves Alive exactly (1,0), (1,1), (1,2).
C4_OriginalStep ==
    (width = 3 /\ height = 3 /\ last'.op = "tick") =>
        /\ cells = Example3 =>
               AliveCells(3, 3, cells') = {<<0, 1>>, <<1, 1>>, <<2, 1>>}
        /\ (last.op = "tick" /\ pre = Example3) =>
               AliveCells(3, 3, cells') = {<<1, 0>>, <<1, 1>>, <<1, 2>>}
C4_Original == [][C4_OriginalStep]_vars

\* C4 (amended): on the 3x3 grid with Alive exactly at (1,0), (1,1), (1,2)
\* one tick() makes all nine cells Alive and a second tick() makes all nine
\* cells Dead.
C4_AmendedStep ==
    (width = 3 /\ height = 3 /\ last'.op = "tick") =>
        /\ cells = Example3 =>
               AliveCells(3, 3, cells') = (0..2) \X (0..2)
        /\ (last.op = "tick" /\ pre = Example3) =>
               AliveCells(3, 3, cells') = {}
C4_Amended == [][C4_AmendedStep]_vars

\* tick() has run on the 3x3 example grid.
C4_Witness ==
    /\ width = 3 /\ height = 3
    /\ last.op = "tick"
    /\ pre = Example3
    /\ ~panicked
    /\ AliveCells(3, 3, cells) = (0..2) \X (0..2)

\* C5 (as claimed): every cell / toggle_cell call with row >= height or
\* column >= width fails and reads or changes no cell.
C5_OutOfRangeFails ==
    (last.op \in {"cell", "toggle_cell"} /\ (last.row >= height \/ last.col >= width)) =>
        /\ panicked
        /\ cells = pre
        /\ accessed = {}

\* C6: the cell buffer has length exactly width * height in every state
\* reached by tick() and toggle_cell() calls.
C6_BufferLength == Len(cells) = width * height

\* A tick has replaced the buffer of a 3x3 grid by a different generation.
C6_Witness ==
    /\ last.op = "tick"
    /\ ~panicked
    /\ cells # pre
    /\ width * height = 9
    /\ Len(cells) = 9

\* C7: every buffer index computed during tick(), by live_neighbor_count and
\* by tick itself, lies in [0, width * height); tick() never indexes out of
\* bounds.
C7_TickIndicesInBounds ==
    last.op = "tick" =>
        /\ ~panicked
        /\ \A i \in accessed : 0 <= i /\ i < width * height
        /\ \A row \in Rows, col \in Columns :
               LET idxs == neighbor_indices(width, height, row, col)
               IN \A k \in 1..Len(idxs) : 0 <= idxs[k] /\ idxs[k] < Len(pre)

\* A tick on a 3x3 grid has indexed every cell of the buffer.
C7_Witness ==
    /\ last.op = "tick"
    /\ ~panicked
    /\ width = 3 /\ height = 3
    /\ accessed = 0..8

\* C8: a horizontal blinker on a grid of at least 5x5, with a Dead cell
\* between it and every edge, becomes the vertical blinker through the same
\* centre after one tick() and the original grid after a second tick().
C8_Step ==
    \A rc \in BlinkerPlaces(width, height) :
        last'.op = "tick" =>
            /\ cells = HBlinker(width, height, rc[1], rc[2]) =>
                   cells' = VBlinker(width, height, rc[1], rc[2])
            /\ (last.op = "tick" /\ pre = HBlinker(width, height, rc[1], rc[2])) =>
                   cells' = pre
C8_BlinkerPeriodTwo == [][C8_Step]_vars

\* A second tick has turned a vertical blinker back into the horizontal one.
C8_Witness ==
    /\ last.op = "tick"
    /\ ~panicked
    /\ \E rc \in BlinkerPlaces(width, height) :
           /\ pre = VBlinker(width, height, rc[1], rc[2])
           /\ cells = HBlinker(width, height, rc[1], rc[2])

\* C9: in a 2x2 block touching no edge of a grid of at least 4x4 every block
\* cell has live_neighbor_count 3, and tick() leaves the grid unchanged
\* (hence so does every further tick).
C9_Step ==
    \A rc \in BlockPlaces(width, height) :
        cells = Block(width, height, rc[1], rc[2]) =>
            /\ \A b \in BlockCells(rc[1], rc[2]) :
                   live_neighbor_count(width, height, cells, b[1], b[2]) = 3
            /\ last'.op = "tick" => (cells' = cells /\ ~panicked')
C9_BlockStillLife == [][C9_Step]_vars

\* A tick has run on a block grid and left it as it was.
C9_Witness ==
    /\ last.op = "tick"
    /\ ~panicked
    /\ \E rc \in BlockPlaces(width, height) :
           /\ pre = Block(width, height, rc[1], rc[2])
           /\ cells = pre

\* C10: toggling cell (height-1, width-1) from Dead to Alive strictly
\* increases live_neighbor_count(0, 0), and the tick() after it computes the
\* new state of (0, 0) from that increased count.
C10_Step ==
    /\ (/\ last'.op = "toggle_cell"
        /\ last'.row = height - 1 /\ last'.col = width - 1
        /\ At(cells, Corner) = Dead) =>
           /\ At(cells', Corner) = Alive
           /\ live_neighbor_count(width, height, cells', 0, 0) >
                  live_neighbor_count(width, height, cells, 0, 0)
    /\ (/\ last.op = "toggle_cell"
        /\ last.row = height - 1 /\ last.col = width - 1
        /\ At(pre, Corner) = Dead
        /\ last'.op = "tick") =>
           /\ live_neighbor_count(width, height, cells, 0, 0) >
                  live_neighbor_count(width, height, pre, 0, 0)
           /\ At(cells', 0) =
                  TransitionRule(At(cells, 0),
                                 live_neighbor_count(width, height, cells, 0, 0))
C10_CornerWraps == [][C10_Step]_vars

\* The far corner of a 3x3 grid has been toggled to Alive, raising the count
\* of (0, 0) by one.
C10_Witness ==
    /\ last.op = "toggle_cell"
    /\ width = 3 /\ height = 3
    /\ last.row = 2 /\ last.col = 2
    /\ At(pre, Corner) = Dead
    /\ At(cells, Corner) = Alive
    /\ live_neighbor_count(3, 3, cells, 0, 0) = live_neighbor_count(3, 3, pre, 0, 0) + 1

AllDead(buf) == \A k \in DOMAIN buf : buf[k] = Dead

\* C11: no spontaneous life.  A step from a grid in which every cell is Dead
\* leaves every cell Dead unless the step is a toggle_cell; in particular
\* tick() maps an all-Dead grid to an all-Dead grid.
C11_Step ==
    (AllDead(cells) /\ last'.op # "toggle_cell") => AllDead(cells')
C11_NoSpontaneousLife == [][C11_Step]_vars

\* tick() has run on an all-Dead 3x3 grid and left it all Dead.
C11_Witness ==
    /\ last.op = "tick"
    /\ ~panicked
    /\ width = 3 /\ height = 3
    /\ AllDead(pre)
    /\ AllDead(cells)

\* C12: for every grid with width >= 1 and height >= 1 and every cell,
\* live_neighbor_count returns a value in 0..8, so the u8 count cannot
\* overflow.
C12_CountInRange ==
    /\ width >= 1 /\ height >= 1
    /\ \A row \in Rows, column \in Columns :
           live_neighbor_count(width, height, cells, row, column) \in 0..8

\* An all-Alive 2x2 grid, where every wrapped neighbor is looked up twice
\* and the count of (0, 0) reaches 8.
C12_Witness ==
    /\ width = 2 /\ height = 2
    /\ \A k \in DOMAIN cells : cells[k] = Alive
    /\ live_neighbor_count(2, 2, cells, 0, 0) = 8

\* C13: the grid the default constructor produces has, at every linear index
\* i in 0..width*height-1, an Alive cell if and only if i is a multiple of 2
\* or a multiple of 7, and a Dead cell otherwise.
C13_DefaultSeeding ==
    last.op = "new" =>
        /\ Len(cells) = width * height
        /\ \A i \in 0..(width * height - 1) :
               /\ (i % 2 = 0 \/ i % 7 = 0) => cells[i + 1] = Alive
               /\ ~(i % 2 = 0 \/ i % 7 = 0) => cells[i + 1] = Dead

\* The freshly constructed 64 x 64 universe: index 21 (odd multiple of 7) is
\* Alive, index 4093 (neither) is Dead.
C13_Witness ==
    /\ last.op = "new"
    /\ width = NewWidth /\ height = NewHeight
    /\ Len(cells) = 4096
    /\ cells[22] = Alive
    /\ cells[4094] = Dead

\* C14: width and height are greater than 0 in every state, and every step
\* (a tick(), a toggle_cell() or a cell() call) leaves both at their values.
C14_Fixed ==
    /\ width' = width
    /\ height' = height
C14_DimensionsFixed ==
    /\ [](width > 0 /\ height > 0)
    /\ [][C14_Fixed]_vars

\* A tick() has changed the cells of a 2-wide, 3-high grid, which is still
\* 2 wide and 3 high.
C14_Witness ==
    /\ last.op = "tick"
    /\ ~panicked
    /\ cells # pre
    /\ width = 2 /\ height = 3
    /\ Len(cells) = 6

InsideCanvas(offset_x, offset_y) ==
    /\ 0 <= offset_x /\ offset_x < canvas_width(width)
    /\ 0 <= offset_y /\ offset_y < canvas_height(height)

\* C15: after a click whose pixel offset lies inside the canvas, toggle_cell
\* was called with row = offset_y / (cell_size + 1) < height and
\* column = offset_x / (cell_size + 1) < width, the call did not panic, and
\* the one cell that changed is the cell at (row, column).
C15_ClickInsideCanvas ==
    (last.op = "toggle_cell" /\ InsideCanvas(offset[1], offset[2])) =>
        /\ last.row = offset[2] \div (CellSize + 1)
        /\ last.col = offset[1] \div (CellSize + 1)
        /\ last.row < height
        /\ last.col < width
        /\ ~panicked
        /\ \A k \in DOMAIN cells :
               (cells[k] # pre[k]) <=> (k = last.row * width + last.col + 1)

\* C16: in every interleaving of play/pause clicks and animation-frame
\* firings after start(), at most one animation-frame callback is pending.
C16_AtMostOnePending == pending <= 1

\* C17: tick() is invoked only where is_running is true: a state a tick()
\* has just produced (the callback leaves is_running as it found it) has
\* is_running set.
C17_TickOnlyWhileRunning == last.op = "tick" => is_running

\* C18: in every state reached by play/pause clicks and animation-frame
\* firings, is_running implies that at least one animation callback is
\* pending; and from any point after which is_running stays false, the
\* number of pending callbacks eventually reaches 0 (equivalently: from every
\* state, eventually is_running is true again or no callback is pending).
C18_NeverStalls ==
    /\ [](is_running => pending >= 1)
    /\ []<>(is_running \/ pending = 0)

\* An animation callback has run while playing and requested itself again.
C18_Witness ==
    /\ last.op = "tick"
    /\ is_running
    /\ pending >= 1
====
